---- MODULE Spec2Model ----
(***************************************************************************)
(* The reactive property / decorator registration and wiring subsystem of  *)
(* lwc: registerDecorators and the decorator metadata registry             *)
(* (engine/src/framework/decorators/register.ts), the public property      *)
(* descriptors (api.ts), the wire connector (wire.ts) and the wire-service *)
(* WireAdapter event target.                                               *)
(*                                                                         *)
(* The specifications of the module share its variables:                   *)
(*   SpecReg        the class-level registry: registerDecorators and       *)
(*                  getDecoratorsMeta over the prototypes of two classes;  *)
(*   SpecWire       one component instance with the wire connectors of its *)
(*                  class, its adapters and the micro-task queue;          *)
(*   SpecCtx        the context linking of the adapters to providers;      *)
(*   SpecApi        reads and writes through the installed descriptors;    *)
(*   SpecAdapter    the event target and the listeners of the adapters;    *)
(*   SpecExtractor  the config extractor applied to hosts;                 *)
(*   SpecService    the deprecated register of the wire service.           *)
(***************************************************************************)
EXTENDS Integers, Sequences, FiniteSets, TLC

\* ------------------------------------------------------------------ bounds
\* registerDecorators calls in one behaviour of SpecReg
MaxRegs == 2

\* ------------------------------------------------------------ JS values
\* Every JavaScript value of the model is a string, so that any two compare.
Undefined == "undefined"
Null == "null"
\* thrown by a handler ("" when it returned normally)
NoError == ""

RECURSIVE FoldLeft(_, _, _)
\* Array.prototype.forEach / for-in with an accumulator: Op applied left to right
FoldLeft(Op(_, _), acc, s) ==
    IF s = <<>> THEN acc ELSE FoldLeft(Op, Op(acc, Head(s)), Tail(s))

\* the elements of a sequence
Range(s) == {s[i] : i \in 1..Len(s)}

\* ------------------------------------------------- property descriptors
\* What getOwnPropertyDescriptor(proto, name) returns.  kind "none" is
\* undefined; "data" is a value property (isFn: the value is a function);
\* "accessor" has get / set ("" when undefined).  key is the property key an
\* installed descriptor was created for ("" for the author's own members).
NoDesc == [kind |-> "none", isFn |-> FALSE, writable |-> FALSE, get |-> "", set |-> "", key |-> ""]
MethodDesc == [kind |-> "data", isFn |-> TRUE, writable |-> TRUE, get |-> "", set |-> "", key |-> ""]
FrozenMethodDesc == [kind |-> "data", isFn |-> TRUE, writable |-> FALSE, get |-> "", set |-> "", key |-> ""]
AccessorDesc(g, s) == [kind |-> "accessor", isFn |-> FALSE, writable |-> FALSE, get |-> g, set |-> s, key |-> ""]

isUndefinedDesc(d) == d.kind = "none"
isFunction(f) == f # ""

\* ------------------------------------------------------------ names
\* Property names a class declares; for-in over an array yields its indices.
Names == {"x", "y"}
IndexNames == {"0", "1"}
\* the public fields of the component that wire parameters refer to
HostProps == {"p", "q"}
AllNames == Names \cup IndexNames \cup HostProps
Classes == {"A", "B"}

\* config objects: a value per key, Absent when the object has no such key
Absent == "<absent>"
CfgKeys == {"kind", "id"}
EmptyCfg == [k \in CfgKeys |-> Absent]
\* mutant: only the last source is copied
assign_LastSourceOnly(a, b) == b

\* Object.assign({}, a, b): the keys of b override those of a
assign(a, b) == [k \in CfgKeys |-> IF b[k] # Absent THEN b[k] ELSE a[k]]

\* ------------------------------------------------- reactive parameters
\* A reference is a string, modelled as its sequence of characters.
RefP == <<"p">>
RefQR == <<"q", ".", "r">>
RefQRR == <<"q", ".", "r", ".", "r">>
Refs == {RefP, RefQR, RefQRR}

RECURSIVE SplitFrom(_, _)
\* the segments of the characters chars, segs being those read so far
SplitFrom(segs, chars) ==
    IF chars = <<>> THEN segs
    ELSE IF Head(chars) = "."
         THEN SplitFrom(Append(segs, ""), Tail(chars))
         ELSE SplitFrom([segs EXCEPT ![Len(segs)] = segs[Len(segs)] \o Head(chars)], Tail(chars))
\* String.prototype.split.call(reference, '.')
StringSplit(reference) == SplitFrom(<<"">>, reference)

NoParam == [present |-> FALSE, reference |-> <<>>, head |-> "", tail |-> <<>>]
ParseReference(reference) ==
    LET segments == StringSplit(reference)
    IN [present |-> TRUE, reference |-> reference,
        head |-> Head(segments), tail |-> Tail(segments)]
\* buildReactiveParameter: the parsed reference, from refCache when cached.
\* Returns [rp, cache].
buildReactiveParameter(cache, reference) ==
    IF cache[reference].present
    THEN [rp |-> cache[reference], cache |-> cache]
    ELSE LET rp == ParseReference(reference)
         IN [rp |-> rp, cache |-> [cache EXCEPT ![reference] = rp]]

RECURSIVE SeqOfKeys(_)
\* a set of keys in a fixed enumeration order
SeqOfKeys(ks) ==
    IF ks = {} THEN <<>>
    ELSE LET k == CHOOSE c \in ks : TRUE IN <<k>> \o SeqOfKeys(ks \ {k})
\* keys(obj) of a config object
keys(obj) == SeqOfKeys({k \in CfgKeys : obj[k] # Absent})

\* the dynamic parameters of a wire declaration: a reference per key, NoRef
\* when the key is not a dynamic parameter
NoRef == <<Absent>>
NoParams == [k \in CfgKeys |-> NoRef]

\* buildReactiveParamsConfig: [record, cache].  forEach over the keys calls
\* buildReactiveParameter once per key; a reference parsed for one key is
\* served from the cache for the next.
buildReactiveParamsConfig(cache, wireDefParams) ==
    LET used == {wireDefParams[k] : k \in {c \in CfgKeys : wireDefParams[c] # NoRef}}
    IN [record |-> [k \in CfgKeys |->
                       IF wireDefParams[k] = NoRef THEN NoParam
                       ELSE buildReactiveParameter(cache, wireDefParams[k]).rp],
        cache |-> [r \in DOMAIN cache |->
                       IF r \in used THEN buildReactiveParameter(cache, r).rp ELSE cache[r]]]

\* buildConfigExtractor: the closure (cfgStatic, paramsConfig), and the cache
buildConfigExtractor(cache, cfgStatic, cfgDynamic) ==
    LET r == buildReactiveParamsConfig(cache, cfgDynamic)
    IN [configCallback |-> [cfgStatic |-> cfgStatic, paramsConfig |-> r.record],
        cache |-> r.cache]

\* ------------------------------------------------------- validation
\* Each validate* returns the error assert.fail raises, NoError when the
\* declaration passes.  registerDecorators calls them in development only.
validateObservedField(proto, fieldName) ==
    IF ~isUndefinedDesc(proto[fieldName]) THEN "Compiler Error: Invalid field declaration" ELSE NoError

validateFieldDecoratedWithTrack(proto, fieldName) ==
    IF ~isUndefinedDesc(proto[fieldName]) THEN "Compiler Error: Invalid @track declaration" ELSE NoError

validateFieldDecoratedWithWire(proto, fieldName) ==
    IF ~isUndefinedDesc(proto[fieldName]) THEN "Compiler Error: Invalid @wire field declaration" ELSE NoError

validateMethodDecoratedWithWire(proto, methodName) ==
    LET descriptor == proto[methodName]
    IN IF isUndefinedDesc(descriptor) \/ ~descriptor.isFn \/ (descriptor.kind = "data" /\ ~descriptor.writable)
       THEN "Compiler Error: Invalid @wire method declaration" ELSE NoError

\* mutant: the @api field validation is skipped
validateFieldDecoratedWithApi_Skipped(proto, fieldName) == NoError

validateFieldDecoratedWithApi(proto, fieldName) ==
    IF ~isUndefinedDesc(proto[fieldName]) THEN "Compiler Error: Invalid @api field declaration" ELSE NoError

validateAccessorDecoratedWithApi(proto, fieldName) ==
    LET descriptor == proto[fieldName]
    IN IF isUndefinedDesc(descriptor) THEN "Compiler Error: Invalid @api get accessor declaration"
       ELSE IF isFunction(descriptor.set)
            THEN (IF isFunction(descriptor.get) THEN NoError ELSE "Compiler Error: Missing getter")
            ELSE IF ~isFunction(descriptor.get) THEN "Compiler Error: Missing @api get accessor declaration"
            ELSE NoError

\* mutant: the @api method validation is skipped
validateMethodDecoratedWithApi_Skipped(proto, methodName) == NoError

validateMethodDecoratedWithApi(proto, methodName) ==
    LET descriptor == proto[methodName]
    IN IF isUndefinedDesc(descriptor) \/ ~descriptor.isFn \/ (descriptor.kind = "data" /\ ~descriptor.writable)
       THEN "Compiler Error: Invalid @api method declaration" ELSE NoError

\* ------------------------------------------------ installed descriptors
\* createPublicPropertyDescriptor(key): the storage-backed get/set of api.ts
createPublicPropertyDescriptor(key) ==
    [kind |-> "accessor", isFn |-> FALSE, writable |-> FALSE, get |-> "api.get", set |-> "api.set", key |-> key]
\* mutant: a public accessor gets the storage-backed descriptor of a field
createPublicAccessorDescriptor_Storage(key, descriptor) ==
    [err |-> NoError, desc |-> createPublicPropertyDescriptor(key)]

\* createPublicAccessorDescriptor(key, descriptor): wrappers forwarding to the
\* author's get / set; err is the TypeError of a descriptor without getter
\* (or of destructuring an undefined descriptor)
createPublicAccessorDescriptor(key, descriptor) ==
    IF isUndefinedDesc(descriptor) \/ ~isFunction(descriptor.get)
    THEN [err |-> "TypeError", desc |-> NoDesc]
    ELSE [err |-> NoError,
          desc |-> [kind |-> "accessor", isFn |-> FALSE, writable |-> FALSE,
                    get |-> "fwd:" \o descriptor.get, set |-> "fwd:" \o descriptor.set, key |-> key]]
\* internalWireFieldDecorator(key): get reads cmpFields[key], set ignores
internalWireFieldDecorator(key) ==
    [kind |-> "accessor", isFn |-> FALSE, writable |-> FALSE, get |-> "wire.get", set |-> "wire.set", key |-> key]
internalTrackDecorator(key) ==
    [kind |-> "accessor", isFn |-> FALSE, writable |-> FALSE, get |-> "track.get", set |-> "track.set", key |-> key]
createObservedFieldPropertyDescriptor(key) ==
    [kind |-> "accessor", isFn |-> FALSE, writable |-> FALSE, get |-> "field.get", set |-> "field.set", key |-> key]

\* proto[name]: the function of a method, undefined otherwise
ProtoValue(proto, name) ==
    IF proto[name].kind = "data" /\ proto[name].isFn THEN "fn:" \o name ELSE Undefined

\* ------------------------------------------------------ wire definitions
NoConfigCallback == [cfgStatic |-> EmptyCfg, paramsConfig |-> [k \in CfgKeys |-> NoParam]]
NoWireDef == [present |-> FALSE, method |-> Undefined, adapter |-> "", configCallback |-> NoConfigCallback]
\* The record WireMetaMap holds for a class: its keys in insertion order (the
\* order for-in walks them) and the definition under each key.
NoWireRecord == [order |-> <<>>, def |-> [n \in Names |-> NoWireDef]]
\* storeDef: record[key] = def
storeDef(record, key, def) ==
    [order |-> IF record.def[key].present THEN record.order ELSE Append(record.order, key),
     def |-> [record.def EXCEPT ![key] = def]]
storeWiredMethodMeta(record, methodName, adapter, method, configCallback) ==
    storeDef(record, methodName,
        [present |-> TRUE, method |-> method, adapter |-> adapter, configCallback |-> configCallback])
storeWiredFieldMeta(record, fieldName, adapter, configCallback) ==
    storeDef(record, fieldName,
        [present |-> TRUE, method |-> Undefined, adapter |-> adapter, configCallback |-> configCallback])

\* ---------------------------------------------------- registerDecorators
\* The compiler's meta: publicProps, wire and track are objects (for-in walks
\* their keys in insertion order: a sequence without repeated names),
\* publicMethods and fields are arrays.  An undefined member is the empty
\* sequence: its loop runs no step either way.
\* The running state of one registerDecorators(Ctor, meta) call.
RegStart(proto, record, cache) ==
    [proto |-> proto, record |-> record, cache |-> cache,
     apiMethods |-> <<>>, apiFields |-> <<>>, wiredMethods |-> <<>>, wiredFields |-> <<>>,
     err |-> NoError]

defineProperty(st, name, descriptor) == [st EXCEPT !.proto[name] = descriptor]

\* one iteration of the publicProps loop; dev is process.env.NODE_ENV !== 'production'
PublicPropStep(dev, st, decl) ==
    IF st.err # NoError THEN st
    ELSE IF decl.config > 0
    THEN LET verr == IF dev THEN validateAccessorDecoratedWithApi(st.proto, decl.name) ELSE NoError
             made == createPublicAccessorDescriptor(decl.name, st.proto[decl.name])
         IN IF verr # NoError THEN [st EXCEPT !.err = verr]
            ELSE IF made.err # NoError THEN [st EXCEPT !.err = made.err]
            ELSE defineProperty([st EXCEPT !.apiFields = Append(@, decl.name)], decl.name, made.desc)
    ELSE LET verr == IF dev THEN validateFieldDecoratedWithApi(st.proto, decl.name) ELSE NoError
         IN IF verr # NoError THEN [st EXCEPT !.err = verr]
            ELSE defineProperty([st EXCEPT !.apiFields = Append(@, decl.name)], decl.name,
                                createPublicPropertyDescriptor(decl.name))

\* mutant: the method validation runs in production too
PublicMethodStep_Validating(dev, st, methodName) ==
    IF st.err # NoError THEN st
    ELSE LET verr == validateMethodDecoratedWithApi(st.proto, methodName)
         IN IF verr # NoError THEN [st EXCEPT !.err = verr]
            ELSE [st EXCEPT !.apiMethods = Append(@, methodName)]

\* one iteration of publicMethods.forEach
PublicMethodStep(dev, st, methodName) ==
    IF st.err # NoError THEN st
    ELSE LET verr == IF dev THEN validateMethodDecoratedWithApi(st.proto, methodName) ELSE NoError
         IN IF verr # NoError THEN [st EXCEPT !.err = verr]
            ELSE [st EXCEPT !.apiMethods = Append(@, methodName)]

\* one iteration of the wire loop
WireStep(dev, st, decl) ==
    IF st.err # NoError THEN st
    ELSE LET built == buildConfigExtractor(st.cache, decl.static, decl.params)
             st1 == [st EXCEPT !.cache = built.cache]
         IN IF decl.method = 1
            THEN LET verr == IF dev THEN validateMethodDecoratedWithWire(st1.proto, decl.name) ELSE NoError
                 IN IF verr # NoError THEN [st1 EXCEPT !.err = verr]
                    ELSE [st1 EXCEPT !.wiredMethods = Append(@, decl.name),
                                     !.record = storeWiredMethodMeta(@, decl.name, decl.adapter,
                                                    ProtoValue(st1.proto, decl.name), built.configCallback)]
            ELSE LET verr == IF dev THEN validateFieldDecoratedWithWire(st1.proto, decl.name) ELSE NoError
                 IN IF verr # NoError THEN [st1 EXCEPT !.err = verr]
                    ELSE defineProperty(
                            [st1 EXCEPT !.record = storeWiredFieldMeta(@, decl.name, decl.adapter, built.configCallback),
                                        !.wiredFields = Append(@, decl.name)],
                            decl.name, internalWireFieldDecorator(decl.name))

\* one iteration of the track loop
TrackStep(dev, st, fieldName) ==
    IF st.err # NoError THEN st
    ELSE LET verr == IF dev THEN validateFieldDecoratedWithTrack(st.proto, fieldName) ELSE NoError
         IN IF verr # NoError THEN [st EXCEPT !.err = verr]
            ELSE defineProperty(st, fieldName, internalTrackDecorator(fieldName))

\* `for (const fieldName in fields)`: fields is an array, so fieldName walks
\* its indices "0", "1", ... and not its elements
ForInKeys(fields) == [i \in 1..Len(fields) |-> ToString(i - 1)]

\* one iteration of the fields loop
FieldStep(dev, st, fieldName) ==
    IF st.err # NoError THEN st
    ELSE LET verr == IF dev THEN validateObservedField(st.proto, fieldName) ELSE NoError
         IN IF verr # NoError THEN [st EXCEPT !.err = verr]
            ELSE defineProperty(st, fieldName, createObservedFieldPropertyDescriptor(fieldName))

\* the body of registerDecorators up to setDecoratorsMeta
RegisterBody(dev, proto, record, cache, meta) ==
    LET P(st, d) == PublicPropStep(dev, st, d)
        M(st, d) == PublicMethodStep(dev, st, d)
        W(st, d) == WireStep(dev, st, d)
        T(st, d) == TrackStep(dev, st, d)
        F(st, d) == FieldStep(dev, st, d)
        s1 == FoldLeft(P, RegStart(proto, record, cache), meta.publicProps)
        s2 == FoldLeft(M, s1, meta.publicMethods)
        s3 == FoldLeft(W, s2, meta.wire)
        s4 == FoldLeft(T, s3, meta.track)
    IN FoldLeft(F, s4, ForInKeys(meta.fields))

\* interface DecoratorMeta
DecoratorMeta(apiMethods, apiFields, wiredMethods, wiredFields) ==
    [apiMethods |-> apiMethods, apiFields |-> apiFields,
     wiredMethods |-> wiredMethods, wiredFields |-> wiredFields]
\* const defaultMeta
defaultMeta == DecoratorMeta(<<>>, <<>>, <<>>, <<>>)
\* an entry of the Map signedDecoratorToMetaMap: has is Map.has(Ctor)
NoEntry == [has |-> FALSE, meta |-> defaultMeta]

\* mutant: the map is keyed by something all classes share
setDecoratorsMeta_SharedKey(map, Ctor, meta) == [c \in DOMAIN map |-> [has |-> TRUE, meta |-> meta]]

\* setDecoratorsMeta: signedDecoratorToMetaMap.set(Ctor, meta)
setDecoratorsMeta(map, Ctor, meta) == [map EXCEPT ![Ctor] = [has |-> TRUE, meta |-> meta]]

\* mutant: a class without record gets the record of another class that has one
getDecoratorsMeta_Fallback(map, Ctor) ==
    IF map[Ctor].has THEN map[Ctor].meta
    ELSE IF \E c \in DOMAIN map : map[c].has
         THEN map[CHOOSE c \in DOMAIN map : map[c].has].meta
         ELSE defaultMeta

\* getDecoratorsMeta(Ctor): the stored record, defaultMeta when there is none
getDecoratorsMeta(map, Ctor) == IF ~map[Ctor].has THEN defaultMeta ELSE map[Ctor].meta

\* ------------------------------------------------------- compiler metas
EmptyMeta == [publicProps |-> <<>>, publicMethods |-> <<>>, wire |-> <<>>, track |-> <<>>, fields |-> <<>>]
PropDecl(n, c) == [name |-> n, config |-> c]
WireDecl(n, m, st, ps) == [name |-> n, method |-> m, adapter |-> "adapter", static |-> st, params |-> ps]
StaticKindX == [EmptyCfg EXCEPT !["kind"] = "x"]
ParamsIdP == [NoParams EXCEPT !["id"] = RefP]
ParamsIdQR == [NoParams EXCEPT !["id"] = RefQR]
ParamsIdQRR == [NoParams EXCEPT !["id"] = RefQRR]

\* every meta with one declaration
SingleMetas ==
    {[EmptyMeta EXCEPT !.publicProps = <<PropDecl(n, c)>>] : n \in Names, c \in {0, 3}}
    \cup {[EmptyMeta EXCEPT !.publicMethods = <<n>>] : n \in Names}
    \cup {[EmptyMeta EXCEPT !.wire = <<WireDecl(n, m, StaticKindX, ParamsIdQR)>>] : n \in Names, m \in {0, 1}}
    \cup {[EmptyMeta EXCEPT !.track = <<n>>] : n \in Names}
    \cup {[EmptyMeta EXCEPT !.fields = <<n>>] : n \in Names}
\* metas with two declarations: both orders of two public props, of two
\* methods, of two fields, and a name declared under two decorators
PairMetas ==
    {[EmptyMeta EXCEPT !.publicProps = <<PropDecl("x", 3), PropDecl("y", 0)>>],
     [EmptyMeta EXCEPT !.publicProps = <<PropDecl("y", 0), PropDecl("x", 3)>>],
     [EmptyMeta EXCEPT !.publicProps = <<PropDecl("y", 0), PropDecl("x", 0)>>],
     [EmptyMeta EXCEPT !.publicMethods = <<"x", "y">>],
     [EmptyMeta EXCEPT !.publicMethods = <<"y", "x">>],
     [EmptyMeta EXCEPT !.wire = <<WireDecl("y", 0, StaticKindX, NoParams), WireDecl("x", 1, EmptyCfg, ParamsIdP)>>],
     [EmptyMeta EXCEPT !.fields = <<"x", "y">>],
     [EmptyMeta EXCEPT !.publicProps = <<PropDecl("y", 0)>>, !.track = <<"y">>],
     [EmptyMeta EXCEPT !.publicProps = <<PropDecl("x", 3)>>, !.publicMethods = <<"y">>],
     [EmptyMeta EXCEPT !.track = <<"x">>, !.fields = <<"y">>]}
Metas == {EmptyMeta} \cup SingleMetas \cup PairMetas

\* ------------------------------------------------------ class shapes
\* The prototype of a class before registerDecorators, one per shape of the
\* compiled fixtures: accessor pair + plain field, method + getter, and a
\* setter without getter + a non-writable method.
ShapeOf(dx, dy) ==
    [n \in AllNames |-> IF n = "x" THEN dx ELSE IF n = "y" THEN dy ELSE NoDesc]
ProtoShapes ==
    {ShapeOf(AccessorDesc("get", "set"), NoDesc),
     ShapeOf(MethodDesc, AccessorDesc("get", "")),
     ShapeOf(AccessorDesc("", "set"), FrozenMethodDesc)}

\* ------------------------------------------------------------ state
VARIABLES
    devMode,                    \* process.env.NODE_ENV !== 'production'
    proto,                      \* Ctor.prototype's own descriptors, per class
    signedDecoratorToMetaMap,   \* register.ts: class -> DecoratorMeta
    WireMetaMap,                \* wire.ts: class -> name -> WireDef
    refCache,                   \* register.ts: reference -> ReactiveParameter
    regCalls,                   \* registerDecorators calls made, per class
    regLast,                    \* the last call of the registry and its outcome
    adapterOf                   \* wire-service: the `adapter` property of each adapter id

regVars == <<devMode, proto, signedDecoratorToMetaMap, WireMetaMap, refCache, regCalls, regLast,
             adapterOf>>

\* the adapter ids of the wire service, objects without `adapter` property
AdapterIds == {"id1", "id2"}
NoAdapters == [id \in AdapterIds |-> Absent]

\* the state of one component instance and of its wire connectors
VARIABLES
    vmState,             \* vm.state: "created", "connected" or "disconnected"
    isDirty,             \* vm.isDirty
    cmpProps,            \* vm.cmpProps: the values of the public fields
    cmpFields,           \* vm.cmpFields: the values of the wired fields
    wiredConnecting,     \* vm.context.wiredConnecting (undefined before install)
    wiredDisconnecting,  \* vm.context.wiredDisconnecting
    conn,                \* per wire: the closure state of createConnector
    adapters,            \* per wire: the listener lists of the WireAdapter
    microtasks,          \* the pending Promise callbacks, in order
    requests,            \* context-link events a provider has received
    calls,               \* the outward calls the last step made, in order
    wireLast,            \* the last operation and what it threw
    isRendering,         \* invoker: a render() is running
    isBeingConstructed   \* invoker: the constructor of the instance is running

wireVars == <<vmState, isDirty, cmpProps, cmpFields, wiredConnecting, wiredDisconnecting,
              conn, adapters, microtasks, requests, calls, wireLast,
              isRendering, isBeingConstructed>>
\* what the invoker knows of the instance
apiVars == <<isRendering, isBeingConstructed>>

vars == <<regVars, wireVars>>

\* registerDecorators calls made so far
nRegs == regCalls["A"] + regCalls["B"]

RegCall(op, Ctor, meta, err, result) ==
    [op |-> op, Ctor |-> Ctor, meta |-> meta, err |-> err, result |-> result]

RegInit ==
    /\ devMode \in BOOLEAN
    /\ \E shape \in ProtoShapes : proto = [c \in Classes |-> shape]
    /\ signedDecoratorToMetaMap = [c \in Classes |-> NoEntry]
    /\ WireMetaMap = [c \in Classes |-> NoWireRecord]
    /\ refCache = [r \in Refs |-> NoParam]
    /\ regCalls = [c \in Classes |-> 0]
    /\ regLast = RegCall("none", "", EmptyMeta, NoError, defaultMeta)
    /\ adapterOf = NoAdapters

\* registerDecorators(Ctor, meta): the prototype, the wire definitions and the
\* reference cache keep what was done before a validation threw; the record
\* is stored only when the body ran to its end.
registerDecorators(Ctor, meta) ==
    /\ nRegs < MaxRegs
    /\ LET st == RegisterBody(devMode, proto[Ctor], WireMetaMap[Ctor], refCache, meta)
       IN /\ proto' = [proto EXCEPT ![Ctor] = st.proto]
          /\ WireMetaMap' = [WireMetaMap EXCEPT ![Ctor] = st.record]
          /\ refCache' = st.cache
          /\ signedDecoratorToMetaMap' =
                IF st.err = NoError
                THEN setDecoratorsMeta(signedDecoratorToMetaMap, Ctor,
                        DecoratorMeta(st.apiMethods, st.apiFields, st.wiredMethods, st.wiredFields))
                ELSE signedDecoratorToMetaMap
          /\ regLast' = RegCall("registerDecorators", Ctor, meta, st.err, defaultMeta)
    /\ regCalls' = [regCalls EXCEPT ![Ctor] = @ + 1]
    /\ UNCHANGED <<devMode, adapterOf, wireVars>>

\* a caller reads getDecoratorsMeta(Ctor)
ReadDecoratorsMeta(Ctor) ==
    /\ regLast' = RegCall("getDecoratorsMeta", Ctor, EmptyMeta, NoError,
                          getDecoratorsMeta(signedDecoratorToMetaMap, Ctor))
    /\ UNCHANGED <<devMode, proto, signedDecoratorToMetaMap, WireMetaMap, refCache, regCalls, adapterOf>>
    /\ UNCHANGED wireVars

RegNext ==
    \/ \E Ctor \in Classes, meta \in Metas : registerDecorators(Ctor, meta)
    \/ \E Ctor \in Classes : ReadDecoratorsMeta(Ctor)

\* ======================================================================
\* The wire connector of one component instance (wire.ts) and its adapters
\* (wire-service WireAdapter).  The instance is of class "A".
\* ======================================================================
WiredClass == "A"
\* what a provider or an adapter delivers, and what a public field is set to
DataValues == {"v1", "v2"}
PropValues == {Undefined, "v1", "o1"}
\* opaque context identifiers and the callbacks of link-context events
UIDs == {"u1", "u2"}
Listeners == {"l1", "l2"}
\* link-context events dispatched on the adapters of the instance, at most
MaxLinks == 2
\* answers of providers to the requests of the instance, at most
MaxAnswers == 2
\* the free identifier `name`: the window's name, or not bound at all
Unbound == "<unbound>"
GlobalNames == {"", Unbound}

\* value == null
isNullish(value) == value = Undefined \/ value = Null
\* value[segment] of a non-null value: the object "o1" is {r: "v2"}, the
\* object "o2" is {r: o1}, "o3" is {r: null}
GetMember(value, segment) ==
    IF value = "o1" /\ segment = "r" THEN "v2"
    ELSE IF value = "o2" /\ segment = "r" THEN "o1"
    ELSE IF value = "o3" /\ segment = "r" THEN Null
    ELSE Undefined

RECURSIVE WalkTail(_, _)
\* the loop of getReactiveParameterValue over the tail
WalkTail(value, tail) ==
    IF tail = <<>> THEN [value |-> value, err |-> NoError]
    ELSE IF ~isNullish(value)
         THEN [value |-> Undefined, err |-> NoError]       \* if (value != null) return undefined
         ELSE IF isNullish(value)
              THEN [value |-> Undefined, err |-> "TypeError"]   \* value[segment] of null / undefined
              ELSE WalkTail(GetMember(value, Head(tail)), Tail(tail))

\* getReactiveParameterValue(host, reactiveParameter), hostValue being host[head]
getReactiveParameterValue(hostValue, reactiveParameter) ==
    WalkTail(hostValue, reactiveParameter.tail)

\* an outward call: a listener or a method invoked, an event dispatched
Call(fn, w, a, b, cfg) == [fn |-> fn, w |-> w, a |-> a, b |-> b, cfg |-> cfg]
WireOp(op, w, a, b, err) == [op |-> op, w |-> w, a |-> a, b |-> b, err |-> err]

\* the storage keys of cmpFields: the wire names and the window's name ""
FieldKeys == Names \cup {""}
NoQueue == [defined |-> FALSE, q |-> <<>>]
\* a closure queued in wiredConnecting / wiredDisconnecting
Closure(kind, w, uid) == [kind |-> kind, w |-> w, uid |-> uid]

NoConnector ==
    [created |-> FALSE, connector |-> FALSE, hasPendingConfig |-> FALSE, listeners |-> {}]
NoAdapter ==
    [connecting |-> <<>>, disconnecting |-> <<>>, configuring |-> <<>>,
     contexting |-> [u \in UIDs |-> <<>>], pushed |-> <<>>]

\* The variables of an instance that nothing has touched yet.
InstanceCreated ==
    /\ vmState = "created"
    /\ isDirty = FALSE
    /\ cmpProps = [k \in HostProps |-> Undefined]
    /\ cmpFields = [k \in FieldKeys |-> Undefined]
    /\ wiredConnecting = NoQueue
    /\ wiredDisconnecting = NoQueue
    /\ conn = [w \in Names |-> NoConnector]
    /\ adapters = [w \in Names |-> NoAdapter]
    /\ microtasks = <<>>
    /\ requests = {}
    /\ calls = <<>>
    /\ wireLast = WireOp("none", "", "", "", NoError)
    /\ isRendering = FALSE

\* The variables of the instance before installWireAdapters, its constructor
\* having returned.
WireIdle == InstanceCreated /\ isBeingConstructed = FALSE

\* ------------------------------------------------------ config callback
\* host[head]: a public field reads cmpProps, a wired field cmpFields, any
\* other name is no property of the component
HostRead(head) ==
    IF head \notin DOMAIN proto[WiredClass] THEN Undefined
    ELSE IF proto[WiredClass][head].get = "api.get" THEN cmpProps[head]
    ELSE IF proto[WiredClass][head].get = "wire.get" THEN cmpFields[head]
    ELSE Undefined
\* the getter of head calls valueObserved(component, head)
HostObserved(head) ==
    /\ head \in DOMAIN proto[WiredClass]
    /\ proto[WiredClass][head].get \in {"api.get", "wire.get"}

\* keys(paramsConfig)
ParamKeys(paramsConfig) == SeqOfKeys({k \in CfgKeys : paramsConfig[k].present})

\* computeReactiveParams(obj, paramsConfig): the values, the error that ended
\* the forEach early, and the heads read on the host up to there
computeReactiveParams(paramsConfig) ==
    LET ks == ParamKeys(paramsConfig)
        R(k) == getReactiveParameterValue(HostRead(paramsConfig[k].head), paramsConfig[k])
        bad == {i \in 1..Len(ks) : R(ks[i]).err # NoError}
        stop == IF bad = {} THEN Len(ks) ELSE CHOOSE i \in bad : \A j \in bad : i <= j
    IN [value |-> [k \in CfgKeys |-> IF paramsConfig[k].present THEN R(k).value ELSE Absent],
        err |-> IF bad = {} THEN NoError ELSE R(ks[stop]).err,
        reads |-> {paramsConfig[ks[i]].head : i \in 1..stop}]

\* the object assign({}, cfgStatic, reactiveParams) writes into and returns:
\* the `{}` of this call
assignTarget == "{}"

\* configCallback(component): the extractor buildConfigExtractor returned.
\* config is the content of the object it returns and returned its identity;
\* reads are the properties read on the host, observed those among them whose
\* getter calls valueObserved.
configCallback(cb) ==
    LET reactiveParams == computeReactiveParams(cb.paramsConfig)
    IN [config |-> assign(cb.cfgStatic, reactiveParams.value),
        returned |-> assignTarget,
        err |-> reactiveParams.err,
        reads |-> reactiveParams.reads,
        observed |-> {h \in reactiveParams.reads : HostObserved(h)}]

\* ------------------------------------------------- reactive observer
\* mutant: the callback pushes the new config at once instead of deferring it
roCallback_Synchronous(w, hasPendingConfig) ==
    [hasPendingConfig |-> hasPendingConfig, scheduled |-> FALSE,
     calls |-> <<Call("update", w, "", "", EmptyCfg)>>]

\* the callback createConnector hands to its ReactiveObserver, run when a key
\* it observed is mutated: [hasPendingConfig, scheduled, calls]
roCallback(w, hasPendingConfig) ==
    IF hasPendingConfig = FALSE
    THEN [hasPendingConfig |-> TRUE, scheduled |-> TRUE, calls |-> <<>>]
    ELSE [hasPendingConfig |-> hasPendingConfig, scheduled |-> FALSE, calls |-> <<>>]

\* the wires whose observer is subscribed to key, in installation order
Subscribed(key) == SelectSeq(WireMetaMap[WiredClass].order, LAMBDA w : key \in conn[w].listeners)

\* valueMutated(component, key): every subscribed observer runs its callback
valueMutated(key) ==
    LET ws == Subscribed(key)
        R(w) == roCallback(w, conn[w].hasPendingConfig)
    IN [conn |-> [w \in Names |->
                    IF key \in conn[w].listeners
                    THEN [conn[w] EXCEPT !.hasPendingConfig = R(w).hasPendingConfig]
                    ELSE conn[w]],
        microtasks |-> microtasks \o SelectSeq(ws, LAMBDA w : R(w).scheduled),
        calls |-> <<Call("valueMutated", "", key, "", EmptyCfg)>>
                  \o (IF Len(ws) >= 1 THEN R(ws[1]).calls ELSE <<>>)
                  \o (IF Len(ws) >= 2 THEN R(ws[2]).calls ELSE <<>>)]

\* ---------------------------------------------------------- WireAdapter
\* mutant: update stops after the first config listener
update_FirstListenerOnly(w, config) ==
    <<Call("update", w, "", "", config)>>
    \o [i \in 1..(IF adapters[w].configuring = <<>> THEN 0 ELSE 1) |->
            Call("config listener", w, adapters[w].configuring[i], "", config)]

\* WireAdapter.update(config): every config listener, in order
update(w, config) ==
    <<Call("update", w, "", "", config)>>
    \o [i \in 1..Len(adapters[w].configuring) |->
            Call("config listener", w, adapters[w].configuring[i], "", config)]
\* WireAdapter.connect()
connect(w) ==
    <<Call("connect", w, "", "", EmptyCfg)>>
    \o [i \in 1..Len(adapters[w].connecting) |->
            Call("connect listener", w, adapters[w].connecting[i], "", EmptyCfg)]
\* WireAdapter.disconnect()
disconnect(w) ==
    <<Call("disconnect", w, "", "", EmptyCfg)>>
    \o [i \in 1..Len(adapters[w].disconnecting) |->
            Call("disconnect listener", w, adapters[w].disconnecting[i], "", EmptyCfg)]
\* WireAdapter.context(uid, value): the listeners kept under uid
context(w, uid, value) ==
    <<Call("context", w, uid, value, EmptyCfg)>>
    \o [i \in 1..Len(adapters[w].contexting[uid]) |->
            Call("context listener", w, adapters[w].contexting[uid][i], value, EmptyCfg)]

\* ------------------------------------------------------ createConnector
\* createConnector(vm, def) for the wire w; outcome is what `new adapter(...)`
\* does.  The job runs under runWithBoundaryProtection, which reports what it
\* throws.  [connector, listeners, calls]
createConnector(w, outcome) ==
    LET cc == configCallback(WireMetaMap[WiredClass].def[w].configCallback)
    IN IF outcome = "throw"
       THEN [connector |-> FALSE, listeners |-> {},
             calls |-> <<Call("new adapter", w, "", "", EmptyCfg),
                         Call("report error", w, "Error", "", EmptyCfg)>>]
       ELSE [connector |-> TRUE, listeners |-> cc.observed,
             calls |-> <<Call("new adapter", w, "", "", EmptyCfg)>>
                       \o (IF cc.err # NoError
                           THEN <<Call("report error", w, cc.err, "", EmptyCfg)>>
                           ELSE update(w, cc.config))]

RECURSIVE ConnectorCalls(_, _)
\* the calls of createConnector for the wires ws, one after the other
ConnectorCalls(ws, outcome) ==
    IF ws = <<>> THEN <<>>
    ELSE createConnector(Head(ws), outcome[Head(ws)]).calls \o ConnectorCalls(Tail(ws), outcome)

\* installWireAdapters(vm), at construction
installWireAdapters(outcome) ==
    /\ vmState = "created"
    /\ ~isBeingConstructed
    /\ ~wiredConnecting.defined
    /\ LET meta == WireMetaMap[WiredClass]
       IN IF meta.order = <<>>
          THEN /\ wireLast' = WireOp("installWireAdapters", "", "", "",
                                     IF devMode THEN "Internal Error" ELSE NoError)
               /\ calls' = <<>>
               /\ UNCHANGED <<conn, wiredConnecting, wiredDisconnecting>>
          ELSE /\ conn' = [w \in Names |->
                             IF meta.def[w].present
                             THEN [created |-> TRUE,
                                   connector |-> createConnector(w, outcome[w]).connector,
                                   hasPendingConfig |-> FALSE,
                                   listeners |-> createConnector(w, outcome[w]).listeners]
                             ELSE conn[w]]
               /\ calls' = ConnectorCalls(meta.order, outcome)
               /\ wiredConnecting' =
                    [defined |-> TRUE,
                     q |-> [i \in 1..Len(meta.order) |-> Closure("connect", meta.order[i], "")]]
               /\ wiredDisconnecting' =
                    [defined |-> TRUE,
                     q |-> [i \in 1..Len(meta.order) |-> Closure("disconnect", meta.order[i], "")]]
               /\ wireLast' = WireOp("installWireAdapters", "", "", "", NoError)
    /\ UNCHANGED <<regVars, apiVars, vmState, isDirty, cmpProps, cmpFields, adapters, microtasks, requests>>

\* what one queued closure does: its calls, and the TypeError of calling
\* connect / disconnect on a connector that was never assigned
RunClosure(c) ==
    IF c.kind = "dc"
    THEN [calls |-> <<Call("disconnectCallback", c.w, c.uid, "", EmptyCfg)>>, err |-> NoError]
    ELSE IF ~conn[c.w].connector THEN [calls |-> <<>>, err |-> "TypeError"]
    ELSE IF c.kind = "connect" THEN [calls |-> connect(c.w), err |-> NoError]
    ELSE [calls |-> disconnect(c.w), err |-> NoError]

\* mutant: the loop over a queue stops after its first closure
RunQueue_FirstOnly(q, done) ==
    IF q = <<>> THEN [calls |-> done, err |-> NoError]
    ELSE [calls |-> done \o RunClosure(Head(q)).calls, err |-> RunClosure(Head(q)).err]

RECURSIVE RunQueue(_, _)
\* for (i = 0; i < len; i += 1) queue[i](): stops at the first closure that throws
RunQueue(q, done) ==
    IF q = <<>> THEN [calls |-> done, err |-> NoError]
    ELSE LET r == RunClosure(Head(q))
         IN IF r.err # NoError THEN [calls |-> done \o r.calls, err |-> r.err]
            ELSE RunQueue(Tail(q), done \o r.calls)

\* connectWireAdapters(vm), when the instance becomes connected
connectWireAdapters ==
    /\ vmState # "connected"
    /\ wiredConnecting.defined
    /\ vmState' = "connected"
    /\ LET r == RunQueue(wiredConnecting.q, <<>>)
       IN /\ calls' = r.calls
          /\ wireLast' = WireOp("connectWireAdapters", "", "", "", r.err)
    /\ UNCHANGED <<regVars, apiVars, isDirty, cmpProps, cmpFields, wiredConnecting, wiredDisconnecting,
                   conn, adapters, microtasks, requests>>

\* disconnectWireAdapters(vm), when the instance becomes disconnected
disconnectWireAdapters ==
    /\ vmState = "connected"
    /\ wiredDisconnecting.defined
    /\ vmState' = "disconnected"
    /\ LET r == RunQueue(wiredDisconnecting.q, <<>>)
       IN /\ calls' = r.calls
          /\ wireLast' = WireOp("disconnectWireAdapters", "", "", "", r.err)
    /\ UNCHANGED <<regVars, apiVars, isDirty, cmpProps, cmpFields, wiredConnecting, wiredDisconnecting,
                   conn, adapters, microtasks, requests>>

\* ------------------------------------------------------------ mutations
\* mutant: the setter does not look at isRendering
assertNotRendering_Off == NoError

\* assert.invariant(!isRendering, ...) of the setters, in development only
assertNotRendering ==
    IF devMode /\ isRendering THEN "Invariant Violation: render() has side effects" ELSE NoError

\* mutant: the notification is raised for a dirty instance too
notifiesMutation_Always(dirty) == TRUE

\* isFalse(vm.isDirty): the setter of a public field notifies the mutation
notifiesMutation(dirty) == dirty = FALSE

\* mutant: the setter of a public field stores nothing on a dirty instance
storedBySetter_UnlessDirty(props, key, newValue) ==
    IF isDirty THEN props ELSE [props EXCEPT ![key] = newValue]

\* vm.cmpProps[key] = newValue
storedBySetter(props, key, newValue) == [props EXCEPT ![key] = newValue]

\* component[key] = newValue through the setter of a public field
SetPublicProp(key, newValue) ==
    /\ proto[WiredClass][key].set = "api.set"
    /\ IF assertNotRendering # NoError
       THEN /\ calls' = <<>>
            /\ wireLast' = WireOp("set", "", key, newValue, assertNotRendering)
            /\ UNCHANGED <<cmpProps, conn, microtasks>>
       ELSE /\ cmpProps' = storedBySetter(cmpProps, key, newValue)
            /\ IF notifiesMutation(isDirty)
               THEN /\ conn' = valueMutated(key).conn
                    /\ microtasks' = valueMutated(key).microtasks
                    /\ calls' = valueMutated(key).calls
               ELSE /\ calls' = <<>>
                    /\ UNCHANGED <<conn, microtasks>>
            /\ wireLast' = WireOp("set", "", key, newValue, NoError)
    /\ UNCHANGED <<regVars, apiVars, vmState, isDirty, cmpFields, wiredConnecting, wiredDisconnecting,
                   adapters, requests>>

\* the rendering engine marks the instance dirty, or renders it
SetDirty(dirty) ==
    /\ isDirty # dirty
    /\ isDirty' = dirty
    /\ calls' = <<>>
    /\ wireLast' = WireOp("dirty", "", "", "", NoError)
    /\ UNCHANGED <<regVars, apiVars, vmState, cmpProps, cmpFields, wiredConnecting, wiredDisconnecting,
                   conn, adapters, microtasks, requests>>

\* the micro-task the observer callback scheduled for the wire at the head
RunMicrotask ==
    /\ microtasks # <<>>
    /\ LET w == Head(microtasks)
           cc == configCallback(WireMetaMap[WiredClass].def[w].configCallback)
       IN /\ conn' = [conn EXCEPT ![w].hasPendingConfig = FALSE,
                                  ![w].listeners = {}]            \* ro.reset()
          /\ calls' = IF cc.err # NoError
                      THEN <<Call("unhandled rejection", w, cc.err, "", EmptyCfg)>>
                      ELSE update(w, cc.config)
          /\ wireLast' = WireOp("microtask", w, "", "", cc.err)
    /\ microtasks' = Tail(microtasks)
    /\ UNCHANGED <<regVars, apiVars, vmState, isDirty, cmpProps, cmpFields, wiredConnecting,
                   wiredDisconnecting, adapters, requests>>

\* dispatchEvent of a ValueChangedEvent: this.callback(value)
dataCallbackCalls(w, value) == <<Call("dataCallback", w, value, "", EmptyCfg)>>

\* createMethodDataCallback: invokeComponentCallback(vm, method, [value])
methodDataCallback(w, value) == <<Call("method", w, value, "", EmptyCfg)>>

\* the adapter of wire w dispatches a ValueChangedEvent: this.callback(value),
\* then `return false` (b of the operation) unless the callback threw.
\* For a field the callback is createFieldDataCallback's, whose `name` is no
\* variable of it: it reads the global of that name.  For a method it is
\* createMethodDataCallback's.
DispatchValue(w, value, name) ==
    /\ conn[w].connector
    /\ IF WireMetaMap[WiredClass].def[w].method = Undefined
       THEN IF name = Unbound
            THEN /\ calls' = dataCallbackCalls(w, value)
                 /\ wireLast' = WireOp("value", w, value, "", "ReferenceError")
                 /\ UNCHANGED <<cmpFields, conn, microtasks>>
            ELSE /\ cmpFields' = [cmpFields EXCEPT ![name] = value]
                 /\ conn' = valueMutated(name).conn
                 /\ microtasks' = valueMutated(name).microtasks
                 /\ calls' = dataCallbackCalls(w, value) \o valueMutated(name).calls
                 /\ wireLast' = WireOp("value", w, value, "false", NoError)
       ELSE /\ name = ""
            /\ calls' = dataCallbackCalls(w, value) \o methodDataCallback(w, value)
            /\ wireLast' = WireOp("value", w, value, "false", NoError)
            /\ UNCHANGED <<cmpFields, conn, microtasks>>
    /\ UNCHANGED <<regVars, apiVars, vmState, isDirty, cmpProps, wiredConnecting, wiredDisconnecting,
                   adapters, requests>>

\* ------------------------------------------------------ context linking
\* link-context events dispatched on the adapter of w so far
LinkCount(w) ==
    Len(adapters[w].pushed) + Len(adapters[w].contexting["u1"]) + Len(adapters[w].contexting["u2"])
\* and on the adapters of the instance together
Links == LinkCount("x") + LinkCount("y")

\* the adapter of wire w dispatches a LinkContextEvent(uid, callback) on its
\* event target; the contextualizer is createConnector's contextCallback.
DispatchLinkContext(w, uid, callback) ==
    /\ conn[w].connector
    /\ Links < MaxLinks
    /\ adapters' = [adapters EXCEPT ![w] =
            IF adapters[w].contexting[uid] # <<>>
            THEN [@ EXCEPT !.pushed = Append(@, callback)]     \* ArrayPush.call(this.contexting, callback)
            ELSE [@ EXCEPT !.contexting[uid] = <<callback>>]]
    /\ IF vmState = "connected"
       THEN /\ calls' = <<Call("dispatchEvent", w, uid, "", EmptyCfg)>>
            /\ requests' = requests \cup {[w |-> w, uid |-> uid]}
            /\ wireLast' = WireOp("link", w, uid, callback, NoError)
       ELSE \* ArrayPush.call(wiredDisconnecting, ...) on what vm.context held
            \* when the connector was created, before installWireAdapters
            \* assigned the queue
            /\ calls' = <<>>
            /\ wireLast' = WireOp("link", w, uid, callback, "TypeError")
            /\ UNCHANGED requests
    /\ UNCHANGED <<regVars, apiVars, vmState, isDirty, cmpProps, cmpFields, wiredConnecting,
                   wiredDisconnecting, conn, microtasks>>

\* disconnect callbacks of providers in the disconnect queue
Answers == Len(SelectSeq(wiredDisconnecting.q, LAMBDA c : c.kind = "dc"))

\* a provider that received the request r calls the event's detail function
\* with (value, disconnectCallback)
ProviderAnswers(r, value) ==
    /\ r \in requests
    /\ Answers < MaxAnswers
    /\ wiredDisconnecting' =
            [wiredDisconnecting EXCEPT !.q = Append(@, Closure("dc", r.w, r.uid))]
    /\ calls' = context(r.w, r.uid, value)
    /\ wireLast' = WireOp("answer", r.w, r.uid, value, NoError)
    /\ UNCHANGED <<regVars, apiVars, vmState, isDirty, cmpProps, cmpFields, wiredConnecting,
                   conn, adapters, microtasks, requests>>

\* ------------------------------------------------------- specifications
\* the class of the instance: public fields p and q, a wired field x whose
\* config reads p, a wired method y whose config reads q.r
WiredMeta ==
    [EmptyMeta EXCEPT !.publicProps = <<PropDecl("p", 0), PropDecl("q", 0)>>,
                      !.wire = <<WireDecl("x", 0, StaticKindX, ParamsIdP),
                                 WireDecl("y", 1, EmptyCfg, ParamsIdQR)>>]
WiredShape == ShapeOf(NoDesc, MethodDesc)

\* the registry once registerDecorators(WiredClass, WiredMeta) has run
Registered ==
    /\ devMode \in BOOLEAN
    /\ LET st == RegisterBody(devMode, WiredShape, NoWireRecord, [r \in Refs |-> NoParam], WiredMeta)
       IN /\ proto = [c \in Classes |-> IF c = WiredClass THEN st.proto ELSE WiredShape]
          /\ WireMetaMap = [c \in Classes |-> IF c = WiredClass THEN st.record ELSE NoWireRecord]
          /\ refCache = st.cache
          /\ signedDecoratorToMetaMap =
                setDecoratorsMeta([c \in Classes |-> NoEntry], WiredClass,
                    DecoratorMeta(st.apiMethods, st.apiFields, st.wiredMethods, st.wiredFields))
          /\ regLast = RegCall("registerDecorators", WiredClass, WiredMeta, st.err, defaultMeta)
    /\ regCalls = [c \in Classes |-> IF c = WiredClass THEN 1 ELSE 0]
    /\ adapterOf = NoAdapters

CtorOutcomes == [Names -> {"ok", "throw"}]

WireInit == Registered /\ WireIdle

WireNext ==
    \/ \E outcome \in CtorOutcomes : installWireAdapters(outcome)
    \/ connectWireAdapters
    \/ disconnectWireAdapters
    \/ \E key \in HostProps, newValue \in PropValues : SetPublicProp(key, newValue)
    \/ \E dirty \in BOOLEAN : SetDirty(dirty)
    \/ RunMicrotask
    \/ \E w \in Names, value \in DataValues, name \in GlobalNames : DispatchValue(w, value, name)

SpecWire == WireInit /\ [][WireNext]_vars

\* ------------------------------------------- reads and writes of members
\* mutant: the getter of a public field answers from storage during construction
readsStorage_Always(constructing) == TRUE

\* the getter of a public field goes on to the storage: not isBeingConstructed(vm)
readsStorage(constructing) == ~constructing

\* component[key] read through the getter of a public field
GetPublicProp(key) ==
    /\ proto[WiredClass][key].get = "api.get"
    /\ IF readsStorage(isBeingConstructed)
       THEN /\ calls' = <<Call("valueObserved", "", key, "", EmptyCfg)>>
            /\ wireLast' = WireOp("get", "", key, cmpProps[key], NoError)
       ELSE /\ calls' = IF devMode THEN <<Call("logError", "", key, "", EmptyCfg)>> ELSE <<>>
            /\ wireLast' = WireOp("get", "", key, Undefined, NoError)
    /\ UNCHANGED <<regVars, apiVars, vmState, isDirty, cmpProps, cmpFields, wiredConnecting,
                   wiredDisconnecting, conn, adapters, microtasks, requests>>

\* mutant: a missing setter is reported in production too
rejectsMissingSetter_Always == TRUE

\* `else if (process.env.NODE_ENV !== 'production') assert.fail(...)`
rejectsMissingSetter == devMode

\* component[key] = newValue through the setter createPublicAccessorDescriptor
\* made; the author's setter is proto[key].set without its "fwd:" mark
SetPublicAccessor(key, newValue) ==
    /\ proto[WiredClass][key].get = "fwd:get"
    /\ IF assertNotRendering # NoError
       THEN /\ calls' = <<>>
            /\ wireLast' = WireOp("set accessor", "", key, newValue, assertNotRendering)
       ELSE IF proto[WiredClass][key].set = "fwd:set"
       THEN /\ calls' = <<Call("set", "this", key, newValue, EmptyCfg)>>
            /\ wireLast' = WireOp("set accessor", "", key, newValue, NoError)
       ELSE /\ calls' = <<>>
            /\ wireLast' = WireOp("set accessor", "", key, newValue,
                                  IF rejectsMissingSetter THEN "Invalid attempt to set a new value" ELSE NoError)
    /\ UNCHANGED <<regVars, apiVars, vmState, isDirty, cmpProps, cmpFields, wiredConnecting,
                   wiredDisconnecting, conn, adapters, microtasks, requests>>

\* component[key] read through the getter createPublicAccessorDescriptor made:
\* what the author's getter returns for this receiver
GetPublicAccessor(key) ==
    /\ proto[WiredClass][key].get = "fwd:get"
    /\ calls' = <<Call("get", "this", key, "", EmptyCfg)>>
    /\ wireLast' = WireOp("get accessor", "", key, "get.call(this)", NoError)
    /\ UNCHANGED <<regVars, apiVars, vmState, isDirty, cmpProps, cmpFields, wiredConnecting,
                   wiredDisconnecting, conn, adapters, microtasks, requests>>

\* internalWireFieldDecorator(key).set: /** ignore */
wiredFieldSetter(fields, key, v) == fields

\* component[key] = v on a wired field
SetWiredField(key, v) ==
    /\ proto[WiredClass][key].set = "wire.set"
    /\ cmpFields' = wiredFieldSetter(cmpFields, key, v)
    /\ calls' = <<>>
    /\ wireLast' = WireOp("set wired", key, v, "", NoError)
    /\ UNCHANGED <<regVars, apiVars, vmState, isDirty, cmpProps, wiredConnecting,
                   wiredDisconnecting, conn, adapters, microtasks, requests>>

\* component[key] read on a wired field
GetWiredField(key) ==
    /\ proto[WiredClass][key].get = "wire.get"
    /\ calls' = <<Call("valueObserved", "", key, "", EmptyCfg)>>
    /\ wireLast' = WireOp("get wired", key, cmpFields[key], "", NoError)
    /\ UNCHANGED <<regVars, apiVars, vmState, isDirty, cmpProps, cmpFields, wiredConnecting,
                   wiredDisconnecting, conn, adapters, microtasks, requests>>

\* the constructor of the instance returns
EndConstruction ==
    /\ isBeingConstructed
    /\ isBeingConstructed' = FALSE
    /\ calls' = <<>>
    /\ wireLast' = WireOp("constructed", "", "", "", NoError)
    /\ UNCHANGED <<regVars, isRendering, vmState, isDirty, cmpProps, cmpFields, wiredConnecting,
                   wiredDisconnecting, conn, adapters, microtasks, requests>>

\* a render() of the tree starts or ends
SetRendering(rendering) ==
    /\ ~isBeingConstructed
    /\ isRendering # rendering
    /\ isRendering' = rendering
    /\ calls' = <<>>
    /\ wireLast' = WireOp("rendering", "", "", "", NoError)
    /\ UNCHANGED <<regVars, isBeingConstructed, vmState, isDirty, cmpProps, cmpFields,
                   wiredConnecting, wiredDisconnecting, conn, adapters, microtasks, requests>>

\* a class with public fields p and q, a public accessor x with getter and
\* setter, and a public accessor y with a getter only
AccessorMeta ==
    [EmptyMeta EXCEPT !.publicProps = <<PropDecl("p", 0), PropDecl("q", 0),
                                        PropDecl("x", 3), PropDecl("y", 2)>>]
AccessorShape == ShapeOf(AccessorDesc("get", "set"), AccessorDesc("get", ""))

\* the registry once registerDecorators(WiredClass, meta) has run on a class
\* of the given shape
RegisteredAs(meta, shape) ==
    /\ devMode \in BOOLEAN
    /\ LET st == RegisterBody(devMode, shape, NoWireRecord, [r \in Refs |-> NoParam], meta)
       IN /\ proto = [c \in Classes |-> IF c = WiredClass THEN st.proto ELSE shape]
          /\ WireMetaMap = [c \in Classes |-> IF c = WiredClass THEN st.record ELSE NoWireRecord]
          /\ refCache = st.cache
          /\ signedDecoratorToMetaMap =
                setDecoratorsMeta([c \in Classes |-> NoEntry], WiredClass,
                    DecoratorMeta(st.apiMethods, st.apiFields, st.wiredMethods, st.wiredFields))
          /\ regLast = RegCall("registerDecorators", WiredClass, meta, st.err, defaultMeta)
    /\ regCalls = [c \in Classes |-> IF c = WiredClass THEN 1 ELSE 0]
    /\ adapterOf = NoAdapters

\* an instance of the wired class or of the accessor class, in its constructor
ApiInit ==
    /\ RegisteredAs(WiredMeta, WiredShape) \/ RegisteredAs(AccessorMeta, AccessorShape)
    /\ InstanceCreated
    /\ isBeingConstructed = TRUE

ApiNext ==
    \/ EndConstruction
    \/ \E rendering \in BOOLEAN : SetRendering(rendering)
    \/ \E dirty \in BOOLEAN : SetDirty(dirty)
    \/ \E key \in HostProps, newValue \in PropValues : SetPublicProp(key, newValue)
    \/ \E key \in HostProps : GetPublicProp(key)
    \/ \E key \in Names, newValue \in PropValues : SetPublicAccessor(key, newValue)
    \/ \E key \in Names : GetPublicAccessor(key)
    \/ \E outcome \in CtorOutcomes : installWireAdapters(outcome)
    \/ \E w \in Names, value \in DataValues, name \in GlobalNames : DispatchValue(w, value, name)
    \/ \E key \in Names, v \in PropValues : SetWiredField(key, v)
    \/ \E key \in Names : GetWiredField(key)

SpecApi == ApiInit /\ [][ApiNext]_vars

\* ------------------------------------------------- adapter event target
\* listeners registered on the adapters of the instance, at most
MaxListeners == 2
EventTypes == {"connect", "disconnect", "config", "other"}

\* mutant: every event type is taken as the config type
isValidEventType_Any(type) == TRUE

\* the cases of the switch (type) of addEventListener / removeEventListener
isValidEventType(type) == type \in {"connect", "disconnect", "config"}

\* the listener list of the adapter a for an event type
ListenersOf(a, type) ==
    IF type = "connect" THEN a.connecting
    ELSE IF type = "disconnect" THEN a.disconnecting
    ELSE a.configuring
\* the adapter a with its list for type replaced
WithListeners(a, type, list) ==
    IF type = "connect" THEN [a EXCEPT !.connecting = list]
    ELSE IF type = "disconnect" THEN [a EXCEPT !.disconnecting = list]
    ELSE [a EXCEPT !.configuring = list]
\* registrations on the adapter of w, and on all adapters
RegistrationsOf(w) ==
    Len(adapters[w].connecting) + Len(adapters[w].disconnecting) + Len(adapters[w].configuring)
Registrations == RegistrationsOf("x") + RegistrationsOf("y")

\* removeListener(listeners, toRemove): splices the first occurrence out
removeListener(listeners, toRemove) ==
    IF \E i \in 1..Len(listeners) : listeners[i] = toRemove
    THEN LET idx == CHOOSE i \in 1..Len(listeners) :
                        /\ listeners[i] = toRemove
                        /\ \A j \in 1..(i - 1) : listeners[j] # toRemove
         IN SubSeq(listeners, 1, idx - 1) \o SubSeq(listeners, idx + 1, Len(listeners))
    ELSE listeners

\* eventTarget.addEventListener(type, listener) on the adapter of w
AddEventListener(w, type, listener) ==
    /\ conn[w].connector
    /\ Registrations < MaxListeners
    /\ IF ~isValidEventType(type)
       THEN /\ wireLast' = WireOp("addEventListener", w, type, listener, "Error: Invalid event type")
            /\ UNCHANGED adapters
       ELSE /\ adapters' = [adapters EXCEPT ![w] =
                    WithListeners(@, type, Append(ListenersOf(@, type), listener))]
            /\ wireLast' = WireOp("addEventListener", w, type, listener, NoError)
    /\ calls' = <<>>
    /\ UNCHANGED <<regVars, apiVars, vmState, isDirty, cmpProps, cmpFields, wiredConnecting,
                   wiredDisconnecting, conn, microtasks, requests>>

\* eventTarget.removeEventListener(type, listener) on the adapter of w
RemoveEventListener(w, type, listener) ==
    /\ conn[w].connector
    /\ IF ~isValidEventType(type)
       THEN /\ wireLast' = WireOp("removeEventListener", w, type, listener, "Error: Invalid event type")
            /\ UNCHANGED adapters
       ELSE /\ adapters' = [adapters EXCEPT ![w] =
                    WithListeners(@, type, removeListener(ListenersOf(@, type), listener))]
            /\ wireLast' = WireOp("removeEventListener", w, type, listener, NoError)
    /\ calls' = <<>>
    /\ UNCHANGED <<regVars, apiVars, vmState, isDirty, cmpProps, cmpFields, wiredConnecting,
                   wiredDisconnecting, conn, microtasks, requests>>

\* eventTarget.dispatchEvent(evt) on the adapter of w, evt being an instance
\* of neither ValueChangedEvent nor LinkContextEvent
DispatchInvalidEvent(w) ==
    /\ conn[w].connector
    /\ calls' = <<>>
    /\ wireLast' = WireOp("dispatchEvent", w, "other", "", "Error: Invalid event type")
    /\ UNCHANGED <<regVars, apiVars, vmState, isDirty, cmpProps, cmpFields, wiredConnecting,
                   wiredDisconnecting, conn, adapters, microtasks, requests>>

\* every adapter of the instance is constructed
AllConstructed == [w \in Names |-> "ok"]

AdapterNext ==
    \/ installWireAdapters(AllConstructed)
    \/ connectWireAdapters
    \/ disconnectWireAdapters
    \/ SetPublicProp("p", "v1")
    \/ RunMicrotask
    \/ \E w \in Names, type \in EventTypes, listener \in Listeners : AddEventListener(w, type, listener)
    \/ \E w \in Names, type \in EventTypes, listener \in Listeners : RemoveEventListener(w, type, listener)
    \/ \E w \in Names : DispatchInvalidEvent(w)

SpecAdapter == WireInit /\ [][AdapterNext]_vars

CtxNext ==
    \/ \E outcome \in CtorOutcomes : installWireAdapters(outcome)
    \/ connectWireAdapters
    \/ disconnectWireAdapters
    \/ \E w \in Names, uid \in UIDs, callback \in Listeners : DispatchLinkContext(w, uid, callback)
    \/ \E w \in Names, uid \in UIDs, value \in DataValues :
            ProviderAnswers([w |-> w, uid |-> uid], value)

SpecCtx == WireInit /\ [][CtxNext]_vars

\* ------------------------------------------------------ config extractor
\* what the public fields of a host hold
HostValues == {Undefined, Null, "v1", "o1", "o2", "o3"}
StaticConfigs == {EmptyCfg, StaticKindX}
DynamicParams == {NoParams, ParamsIdP, ParamsIdQR, ParamsIdQRR}

\* a class with public fields p and q and a wired field x
ExtractorMeta(cfgStatic, cfgDynamic) ==
    [EmptyMeta EXCEPT !.publicProps = <<PropDecl("p", 0), PropDecl("q", 0)>>,
                      !.wire = <<WireDecl("x", 0, cfgStatic, cfgDynamic)>>]

\* a caller applies the config extractor of wire w to the component
CallConfigCallback(w) ==
    /\ WireMetaMap[WiredClass].def[w].present
    /\ LET cc == configCallback(WireMetaMap[WiredClass].def[w].configCallback)
       IN /\ calls' = [i \in 1..Len(SeqOfKeys(cc.observed)) |->
                            Call("valueObserved", "", SeqOfKeys(cc.observed)[i], "", EmptyCfg)]
                      \o (IF cc.err = NoError
                          THEN <<Call("configCallback", w, cc.returned, "", cc.config)>>
                          ELSE <<>>)
          /\ wireLast' = WireOp("configCallback", w, "", "", cc.err)
    /\ UNCHANGED <<regVars, apiVars, vmState, isDirty, cmpProps, cmpFields, wiredConnecting,
                   wiredDisconnecting, conn, adapters, microtasks, requests>>

ExtractorInit ==
    /\ \E cfgStatic \in StaticConfigs, cfgDynamic \in DynamicParams :
            RegisteredAs(ExtractorMeta(cfgStatic, cfgDynamic), WiredShape)
    /\ WireIdle

ExtractorNext ==
    \/ \E key \in HostProps, newValue \in HostValues : SetPublicProp(key, newValue)
    \/ \E w \in Names : CallConfigCallback(w)

SpecExtractor == ExtractorInit /\ [][ExtractorNext]_vars

\* the registry alone: no instance is touched
RegistryInit == RegInit /\ WireIdle

SpecReg == RegistryInit /\ [][RegNext]_vars

\* ------------------------------------------------- register (deprecated)
\* what register is called with: an adapter id object or a falsy value, and
\* a function or something that is none
AdapterIdArgs == AdapterIds \cup {Undefined, Null}
FactoryArgs == {"fn:f1", "fn:f2", Undefined, "v1"}
\* typeof value === 'function'
isCallable(value) == value \in {"fn:f1", "fn:f2"}
\* the class register stores: its constructor calls adapterEventTargetCallback
AdapterClass(adapterEventTargetCallback) == "class extends WireAdapter: " \o adapterEventTargetCallback

\* register(adapterId, adapterEventTargetCallback).  The three checks build
\* a TypeError and drop it; `'adapter' in adapterId` throws for a value that
\* is no object; the assignment is reached in every other case.
register(adapterId, adapterEventTargetCallback) ==
    /\ IF adapterId \notin AdapterIds
       THEN /\ wireLast' = WireOp("register", "", adapterId, adapterEventTargetCallback, "TypeError")
            /\ UNCHANGED adapterOf
       ELSE /\ adapterOf' = [adapterOf EXCEPT ![adapterId] = AdapterClass(adapterEventTargetCallback)]
            /\ wireLast' = WireOp("register", "", adapterId, adapterEventTargetCallback, NoError)
    /\ calls' = <<>>
    /\ UNCHANGED <<devMode, proto, signedDecoratorToMetaMap, WireMetaMap, refCache, regCalls, regLast>>
    /\ UNCHANGED <<apiVars, vmState, isDirty, cmpProps, cmpFields, wiredConnecting,
                   wiredDisconnecting, conn, adapters, microtasks, requests>>

ServiceNext ==
    \E adapterId \in AdapterIdArgs, adapterEventTargetCallback \in FactoryArgs :
        register(adapterId, adapterEventTargetCallback)

SpecService == RegistryInit /\ [][ServiceNext]_vars

\* ------------------------------------------------------------ claims

\* the calls of the sequence cs to fn that carry a as first argument
CallsTo(cs, fn, a) == SelectSeq(cs, LAMBDA c : c.fn = fn /\ c.a = a)
\* the update calls of the sequence cs on the adapter of w
UpdatesOf(cs, w) == SelectSeq(cs, LAMBDA c : c.fn = "update" /\ c.w = w)
\* the config of wire w reads the reactive parameter key
ReadsParam(w, key) ==
    \E k \in CfgKeys :
        /\ WireMetaMap[WiredClass].def[w].configCallback.paramsConfig[k].present
        /\ WireMetaMap[WiredClass].def[w].configCallback.paramsConfig[k].head = key

\* C1: whenever a mutation notification is raised for a reactive parameter
\* that the config of an existing connector reads, however many recomputations
\* came before, a recomputation of that connector is pending afterwards (so an
\* update with a fresh config follows).
C1_LaterMutationRecomputes ==
    [][\A w \in Names, key \in HostProps :
          (/\ conn[w].connector
           /\ ReadsParam(w, key)
           /\ CallsTo(calls', "valueMutated", key) # <<>>)
          => conn'[w].hasPendingConfig]_vars

\* C2: the micro-task scheduled for a connector, however many notifications
\* arrived before it ran, makes exactly one update call on that connector's
\* adapter and leaves the pending flag cleared.
C2_BatchYieldsOneUpdate ==
    [][wireLast'.op = "microtask"
          => /\ Len(UpdatesOf(calls', wireLast'.w)) = 1
             /\ ~conn'[wireLast'.w].hasPendingConfig]_vars

\* C3: a step that raises a mutation notification makes no update call on any
\* adapter; the update is left to the micro-task scheduled for the connector.
C3_NoSynchronousUpdate ==
    [][(\E i \in 1..Len(calls') : calls'[i].fn = "valueMutated")
          => \A i \in 1..Len(calls') : calls'[i].fn # "update"]_vars

\* C3 witness: a public field was set, the notification was raised, and the
\* recomputation of the connector reading it waits in the micro-task queue.
C3_Witness ==
    /\ wireLast.op = "set"
    /\ CallsTo(calls, "valueMutated", "p") # <<>>
    /\ conn["x"].hasPendingConfig
    /\ microtasks = <<"x">>

\* C4: when the adapter of a field wire f delivers v, cmpFields[f] is v
\* afterwards and exactly one mutation notification for f was raised.
C4_DeliveredValueStoredUnderField ==
    [][(/\ wireLast'.op = "value"
        /\ WireMetaMap[WiredClass].def[wireLast'.w].method = Undefined)
          => /\ cmpFields'[wireLast'.w] = wireLast'.a
             /\ Len(CallsTo(calls', "valueMutated", wireLast'.w)) = 1]_vars

\* C5: after a link-context event with (uid, callback) on an adapter of a
\* connected instance, callback is in the list the adapter keeps for uid, also
\* when the list held a listener already.
C5_ListenersAccumulate ==
    (wireLast.op = "link" /\ wireLast.err = NoError)
        => wireLast.b \in Range(adapters[wireLast.w].contexting[wireLast.a])

\* C6: after the adapter requested context for a uid: a request event was
\* dispatched when the instance is connected; otherwise none was dispatched and
\* the request waits in the instance's disconnect queue.
C6_RequestDispatchedOrQueued ==
    wireLast.op = "link"
        => IF vmState = "connected"
           THEN CallsTo(calls, "dispatchEvent", wireLast.a) # <<>>
           ELSE /\ CallsTo(calls, "dispatchEvent", wireLast.a) = <<>>
                /\ wireLast.err = NoError
                /\ Closure("request", wireLast.w, wireLast.a) \in Range(wiredDisconnecting.q)

\* C7: when a provider answers the request for uid of an adapter, the
\* disconnect callback is in the instance's disconnect queue afterwards, and a
\* listener linked for uid by the event just before receives the value.
C7_AnswerReachesListeners ==
    [][wireLast'.op = "answer"
          => /\ Closure("dc", wireLast'.w, wireLast'.a) \in Range(wiredDisconnecting'.q)
             /\ (/\ wireLast.op = "link"
                 /\ wireLast.w = wireLast'.w
                 /\ wireLast.a = wireLast'.a)
                => \E i \in 1..Len(calls') :
                      /\ calls'[i].fn = "context listener"
                      /\ calls'[i].a = wireLast.b
                      /\ calls'[i].b = wireLast'.b]_vars

\* C8 (as stated): once registerDecorators has stored the record of a class,
\* no later operation changes what getDecoratorsMeta returns for that class.
C8_WriteOnce ==
    [][\A c \in Classes :
          signedDecoratorToMetaMap[c].has =>
              getDecoratorsMeta(signedDecoratorToMetaMap', c) = getDecoratorsMeta(signedDecoratorToMetaMap, c)]_vars

\* C8 (amended): what getDecoratorsMeta returns for a class changes only in a
\* registerDecorators call on that same class that runs to its end, and then
\* becomes the record of that call's meta; getDecoratorsMeta calls, failed
\* registrations and registrations of other classes never change it.
C8_ChangedOnlyByOwnRegistration ==
    [][\A c \in Classes :
          getDecoratorsMeta(signedDecoratorToMetaMap', c) # getDecoratorsMeta(signedDecoratorToMetaMap, c)
              => /\ regLast'.op = "registerDecorators"
                 /\ regLast'.Ctor = c
                 /\ regLast'.err = NoError
                 /\ regCalls'[c] = regCalls[c] + 1]_vars

\* C8 witness: in production, class A was registered with public field y, then
\* again with an empty meta, and its record went from apiFields <<"y">> to empty.
C8_Witness ==
    /\ ~devMode
    /\ regCalls["A"] = 2
    /\ regLast.op = "registerDecorators" /\ regLast.Ctor = "A"
    /\ regLast.meta = EmptyMeta /\ regLast.err = NoError
    /\ proto["A"]["y"] = createPublicPropertyDescriptor("y")
    /\ proto["A"]["x"] = AccessorDesc("get", "set")
    /\ signedDecoratorToMetaMap["A"] = [has |-> TRUE, meta |-> defaultMeta]

\* C9: getDecoratorsMeta on a class never passed to registerDecorators
\* returns, without failing, the record with four empty lists, whatever was
\* registered for the other classes.
C9_UnregisteredGetsDefault ==
    (regLast.op = "getDecoratorsMeta" /\ regCalls[regLast.Ctor] = 0)
        => /\ regLast.err = NoError
           /\ regLast.result.apiMethods = <<>> /\ regLast.result.apiFields = <<>>
           /\ regLast.result.wiredMethods = <<>> /\ regLast.result.wiredFields = <<>>

\* C9 witness: A was never registered, B holds a non-empty record, and
\* getDecoratorsMeta(A) was just read.
C9_Witness ==
    /\ regLast.op = "getDecoratorsMeta" /\ regLast.Ctor = "A"
    /\ regCalls["A"] = 0 /\ regCalls["B"] = 2
    /\ signedDecoratorToMetaMap["B"].has
    /\ signedDecoratorToMetaMap["B"].meta.apiFields = <<"x", "y">>

\* a declared public, tracked or wire name of meta has on p an own descriptor
\* that an earlier registerDecorators installed (its key is set)
DeclaredNameWasInstalled(p, meta) ==
    \/ \E i \in 1..Len(meta.publicProps) : p[meta.publicProps[i].name].key # ""
    \/ \E i \in 1..Len(meta.track) : p[meta.track[i]].key # ""
    \/ \E i \in 1..Len(meta.wire) : p[meta.wire[i].name].key # ""
\* a declared public field (config 0), tracked field or wired field (not a
\* method) of meta has an own descriptor on p
DeclaredFieldHasDescriptor(p, meta) ==
    \/ \E i \in 1..Len(meta.publicProps) :
          meta.publicProps[i].config = 0 /\ ~isUndefinedDesc(p[meta.publicProps[i].name])
    \/ \E i \in 1..Len(meta.track) : ~isUndefinedDesc(p[meta.track[i]])
    \/ \E i \in 1..Len(meta.wire) :
          meta.wire[i].method # 1 /\ ~isUndefinedDesc(p[meta.wire[i].name])
\* this step is a registerDecorators call in development on a class that
\* already has a record
SecondRegistrationStep ==
    /\ devMode
    /\ regLast'.op = "registerDecorators"
    /\ regCalls'[regLast'.Ctor] = regCalls[regLast'.Ctor] + 1
    /\ signedDecoratorToMetaMap[regLast'.Ctor].has

\* C10 (as stated): in development, registerDecorators on a class already
\* registered fails whenever a declared public, tracked or wired name already
\* has an own descriptor on the prototype (here: one the earlier registration
\* installed), public accessors included.
C10_EveryConflictFails ==
    [][(SecondRegistrationStep /\ DeclaredNameWasInstalled(proto[regLast'.Ctor], regLast'.meta))
          => regLast'.err # NoError]_vars

\* C10 (amended): in development, registerDecorators on a class already
\* registered fails whenever a declared public field (config 0), tracked field
\* or wired field already has an own descriptor on the prototype.
C10_FieldConflictFails ==
    [][(SecondRegistrationStep /\ DeclaredFieldHasDescriptor(proto[regLast'.Ctor], regLast'.meta))
          => regLast'.err # NoError]_vars

\* C10 witness: the second registration of public field y on class A failed
\* on the descriptor the first registration installed.
C10_Witness ==
    /\ devMode
    /\ regCalls["A"] = 2 /\ regCalls["B"] = 0
    /\ regLast.op = "registerDecorators" /\ regLast.Ctor = "A"
    /\ regLast.meta = [EmptyMeta EXCEPT !.publicProps = <<PropDecl("y", 0)>>]
    /\ regLast.err = "Compiler Error: Invalid @api field declaration"
    /\ signedDecoratorToMetaMap["A"].meta.apiFields = <<"y">>

\* this step is a registerDecorators call
RegistrationStep ==
    /\ regLast'.op = "registerDecorators"
    /\ regCalls'[regLast'.Ctor] = regCalls[regLast'.Ctor] + 1
\* meta declares a public accessor for a name that has no getter on p
AccessorWithoutGetter(p, meta) ==
    \E i \in 1..Len(meta.publicProps) :
        /\ meta.publicProps[i].config > 0
        /\ (p[meta.publicProps[i].name].kind = "none" \/ p[meta.publicProps[i].name].get = "")
\* the record registerDecorators stores for meta
RecordOf(meta) ==
    DecoratorMeta(meta.publicMethods,
                  [i \in 1..Len(meta.publicProps) |-> meta.publicProps[i].name],
                  [i \in 1..Len(SelectSeq(meta.wire, LAMBDA d : d.method = 1)) |->
                        SelectSeq(meta.wire, LAMBDA d : d.method = 1)[i].name],
                  [i \in 1..Len(SelectSeq(meta.wire, LAMBDA d : d.method # 1)) |->
                        SelectSeq(meta.wire, LAMBDA d : d.method # 1)[i].name])

\* C11 (as stated): in production every registerDecorators call, whatever the
\* metadata and the class shape, completes without error and stores the record.
C11_ProductionNeverFails ==
    [][(RegistrationStep /\ ~devMode)
          => /\ regLast'.err = NoError
             /\ signedDecoratorToMetaMap'[regLast'.Ctor] = [has |-> TRUE, meta |-> RecordOf(regLast'.meta)]]_vars

\* C11 (amended): in production a registerDecorators call fails exactly when
\* the metadata declares a public accessor for a name without getter on the
\* prototype, and then with a TypeError and without storing; every other call
\* completes and stores the record, however inconsistent the metadata.
C11_ProductionFailsOnlyWithoutGetter ==
    [][(RegistrationStep /\ ~devMode)
          => IF AccessorWithoutGetter(proto[regLast'.Ctor], regLast'.meta)
             THEN /\ regLast'.err = "TypeError"
                  /\ signedDecoratorToMetaMap' = signedDecoratorToMetaMap
             ELSE /\ regLast'.err = NoError
                  /\ signedDecoratorToMetaMap'[regLast'.Ctor] =
                        [has |-> TRUE, meta |-> RecordOf(regLast'.meta)]]_vars

\* C11 witness: in production, public methods x and y were registered on a
\* class where x is an accessor and y does not exist, and the record is stored.
C11_Witness ==
    /\ ~devMode
    /\ regLast.op = "registerDecorators" /\ regLast.err = NoError
    /\ regLast.meta = [EmptyMeta EXCEPT !.publicMethods = <<"x", "y">>]
    /\ proto[regLast.Ctor]["x"] = AccessorDesc("get", "set")
    /\ proto[regLast.Ctor]["y"] = NoDesc
    /\ signedDecoratorToMetaMap[regLast.Ctor].meta.apiMethods = <<"x", "y">>

\* the own property d is a writable function
IsWritableFunction(d) == d.kind = "data" /\ d.isFn /\ d.writable
\* meta declares a public or wired method that is no writable function on p,
\* or a public, tracked or wired field whose name has an own descriptor on p
InvalidDeclaration(p, meta) ==
    \/ \E i \in 1..Len(meta.publicMethods) : ~IsWritableFunction(p[meta.publicMethods[i]])
    \/ \E i \in 1..Len(meta.wire) : meta.wire[i].method = 1 /\ ~IsWritableFunction(p[meta.wire[i].name])
    \/ DeclaredFieldHasDescriptor(p, meta)

\* C12: in development a registerDecorators call whose metadata has an invalid
\* declaration fails and stores nothing: getDecoratorsMeta of every class
\* returns what it returned before, the empty default for a class without record.
C12_FailedRegistrationStoresNothing ==
    [][(RegistrationStep /\ devMode /\ InvalidDeclaration(proto[regLast'.Ctor], regLast'.meta))
          => /\ regLast'.err # NoError
             /\ signedDecoratorToMetaMap' = signedDecoratorToMetaMap
             /\ (~signedDecoratorToMetaMap[regLast'.Ctor].has
                    => getDecoratorsMeta(signedDecoratorToMetaMap', regLast'.Ctor) = defaultMeta)]_vars

\* C12 witness: in development the first registration of A, with public
\* methods x and y where x is an accessor, failed; A has no record.
C12_Witness ==
    /\ devMode
    /\ regCalls["A"] = 1
    /\ regLast.op = "registerDecorators" /\ regLast.Ctor = "A"
    /\ regLast.meta = [EmptyMeta EXCEPT !.publicMethods = <<"x", "y">>]
    /\ regLast.err = "Compiler Error: Invalid @api method declaration"
    /\ ~signedDecoratorToMetaMap["A"].has
    /\ getDecoratorsMeta(signedDecoratorToMetaMap, "A") = defaultMeta

\* the name n is declared again by the wire or track part of meta
Redeclared(n, meta) ==
    \/ \E i \in 1..Len(meta.wire) : meta.wire[i].name = n
    \/ \E i \in 1..Len(meta.track) : meta.track[i] = n

\* C13: after a registerDecorators call that completed, the record of the
\* class lists the publicProps names in declaration order as apiFields and
\* publicMethods in order as apiMethods, every wire name is in exactly one of
\* wiredMethods (method = 1) and wiredFields, and each public name holds a
\* descriptor forwarding to the getter and setter found on the prototype
\* (config > 0) or the storage-backed descriptor (config 0).
C13_RecordAndDescriptors ==
    [][(RegistrationStep /\ regLast'.err = NoError)
          => LET c == regLast'.Ctor
                 meta == regLast'.meta
                 rec == getDecoratorsMeta(signedDecoratorToMetaMap', c)
             IN /\ rec.apiFields = [i \in 1..Len(meta.publicProps) |-> meta.publicProps[i].name]
                /\ rec.apiMethods = meta.publicMethods
                /\ \A i \in 1..Len(meta.wire) :
                      IF meta.wire[i].method = 1
                      THEN /\ meta.wire[i].name \in Range(rec.wiredMethods)
                           /\ meta.wire[i].name \notin Range(rec.wiredFields)
                      ELSE /\ meta.wire[i].name \in Range(rec.wiredFields)
                           /\ meta.wire[i].name \notin Range(rec.wiredMethods)
                /\ Range(rec.wiredMethods) \cup Range(rec.wiredFields)
                      = {meta.wire[i].name : i \in 1..Len(meta.wire)}
                /\ \A i \in 1..Len(meta.publicProps) :
                      LET n == meta.publicProps[i].name
                      IN ~Redeclared(n, meta)
                         => IF meta.publicProps[i].config > 0
                            THEN /\ proto'[c][n].kind = "accessor"
                                 /\ proto'[c][n].get = "fwd:" \o proto[c][n].get
                                 /\ proto'[c][n].set = "fwd:" \o proto[c][n].set
                            ELSE /\ proto'[c][n].kind = "accessor"
                                 /\ proto'[c][n].get = "api.get"
                                 /\ proto'[c][n].set = "api.set"]_vars

\* C13 witness: accessor x and field y were registered in that order.
C13_Witness ==
    /\ regLast.op = "registerDecorators" /\ regLast.err = NoError
    /\ regLast.meta = [EmptyMeta EXCEPT !.publicProps = <<PropDecl("x", 3), PropDecl("y", 0)>>]
    /\ regCalls[regLast.Ctor] = 1
    /\ signedDecoratorToMetaMap[regLast.Ctor].meta.apiFields = <<"x", "y">>
    /\ proto[regLast.Ctor]["x"].get = "fwd:get" /\ proto[regLast.Ctor]["x"].set = "fwd:set"
    /\ proto[regLast.Ctor]["y"].get = "api.get"


\* C14: outside construction and rendering, a write of v to a public field
\* leaves v in the storage of that field whether or not the instance is dirty,
\* nothing but a write of that field changes its storage, and a read returns
\* what the storage holds: the value of the most recent write.
C14_ReadReturnsLastWrite ==
    [][/\ (wireLast'.op = "set" /\ ~isBeingConstructed /\ ~isRendering)
            => cmpProps'[wireLast'.a] = wireLast'.b
       /\ (wireLast'.op = "get" /\ ~isBeingConstructed /\ ~isRendering)
            => wireLast'.b = cmpProps[wireLast'.a]
       /\ \A k \in HostProps :
            cmpProps'[k] # cmpProps[k] => (wireLast'.op = "set" /\ wireLast'.a = k)]_vars

\* C14 witness: on a dirty, constructed instance p was read and the read
\* returned "o1", a value only a write can have put there.
C14_Witness ==
    /\ wireLast = WireOp("get", "", "p", "o1", NoError)
    /\ isDirty /\ ~isBeingConstructed /\ ~isRendering

\* C15: a write to a public field that goes through stores the new value and
\* raises exactly one valueMutated for the key when the instance was not
\* dirty, none when it was.
C15_OneNotificationUnlessDirty ==
    [][(wireLast'.op = "set" /\ wireLast'.err = NoError)
          => /\ cmpProps'[wireLast'.a] = wireLast'.b
             /\ Len(CallsTo(calls', "valueMutated", wireLast'.a)) = (IF isDirty THEN 0 ELSE 1)
             /\ \A i \in 1..Len(calls') :
                   calls'[i].fn = "valueMutated" => calls'[i].a = wireLast'.a]_vars

\* C15 witness: q was written on a dirty instance: stored, nothing notified.
C15_Witness ==
    /\ wireLast = WireOp("set", "", "q", "v1", NoError)
    /\ isDirty
    /\ cmpProps["q"] = "v1"
    /\ calls = <<>>

\* C16: a read of a public field during construction returns undefined and
\* raises no valueObserved, whatever is stored; after construction it raises
\* valueObserved for the key once and returns the stored value.
C16_ReadDuringConstruction ==
    [][wireLast'.op = "get"
          => IF isBeingConstructed
             THEN /\ wireLast'.b = Undefined
                  /\ \A i \in 1..Len(calls') : calls'[i].fn # "valueObserved"
             ELSE /\ wireLast'.b = cmpProps[wireLast'.a]
                  /\ calls' = <<Call("valueObserved", "", wireLast'.a, "", EmptyCfg)>>]_vars

\* C16 witness: the constructor stored "v1" in p and then read p: undefined.
C16_Witness ==
    /\ isBeingConstructed
    /\ cmpProps["p"] = "v1"
    /\ wireLast = WireOp("get", "", "p", Undefined, NoError)

\* C17: in development a write to a public field or a public accessor while
\* a render is running fails; the storage is as before, the author's setter
\* is not called and no mutation is notified.
C17_WriteWhileRenderingFails ==
    [][(devMode /\ isRendering /\ wireLast'.op \in {"set", "set accessor"})
          => /\ wireLast'.err # NoError
             /\ cmpProps' = cmpProps
             /\ calls' = <<>>
             /\ microtasks' = microtasks]_vars

\* C17 witness: in development, during a render, "v1" was written to p,
\* which held undefined and still does.
C17_Witness ==
    /\ devMode /\ isRendering
    /\ wireLast.op = "set" /\ wireLast.a = "p" /\ wireLast.b = "v1"
    /\ wireLast.err # NoError
    /\ cmpProps["p"] = Undefined

\* the author of the accessor key declared a setter
HasAuthorSetter(key) == proto[WiredClass][key].set = "fwd:set"
\* nothing of the instance but the record of the last operation changes
InstanceUnchanged ==
    UNCHANGED <<cmpProps, cmpFields, conn, microtasks, adapters, isDirty, vmState>>

\* C18 (as stated): every get of a public accessor calls the author's getter
\* on the receiver, every set calls the author's setter on the receiver with
\* the value, and a set without author's setter fails and changes nothing.
C18_ForwardsOrRejects ==
    [][/\ wireLast'.op = "get accessor"
            => calls' = <<Call("get", "this", wireLast'.a, "", EmptyCfg)>>
       /\ wireLast'.op = "set accessor"
            => IF HasAuthorSetter(wireLast'.a)
               THEN calls' = <<Call("set", "this", wireLast'.a, wireLast'.b, EmptyCfg)>>
               ELSE wireLast'.err # NoError /\ calls' = <<>> /\ InstanceUnchanged]_vars

\* C18 (amended): every get calls the author's getter on the receiver.  A set
\* made in development during a render fails and calls nothing.  Any other
\* set calls the author's setter on the receiver with the value when there is
\* one; without one it changes nothing and calls nothing, and it fails in
\* development while production ignores it without error.
C18_ForwardsOrRejectsInDevelopment ==
    [][/\ wireLast'.op = "get accessor"
            => calls' = <<Call("get", "this", wireLast'.a, "", EmptyCfg)>>
       /\ wireLast'.op = "set accessor"
            => IF devMode /\ isRendering
               THEN wireLast'.err # NoError /\ calls' = <<>> /\ InstanceUnchanged
               ELSE IF HasAuthorSetter(wireLast'.a)
               THEN /\ calls' = <<Call("set", "this", wireLast'.a, wireLast'.b, EmptyCfg)>>
                    /\ wireLast'.err = NoError
               ELSE /\ calls' = <<>> /\ InstanceUnchanged
                    /\ (wireLast'.err # NoError) = devMode]_vars

\* C18 witness: in production "v1" was assigned to y, an accessor without
\* author's setter: no error, no call.
C18_Witness ==
    /\ ~devMode
    /\ wireLast = WireOp("set accessor", "", "y", "v1", NoError)
    /\ proto[WiredClass]["y"].set = "fwd:"
    /\ calls = <<>>

\* C19: an assignment to a wired field raises no error, notifies nothing and
\* leaves the wired-field storage as it was; made right after the adapter
\* delivered a value for that field, it leaves that value to be read.
C19_WiredFieldSetIgnored ==
    [][wireLast'.op = "set wired"
          => /\ wireLast'.err = NoError
             /\ calls' = <<>>
             /\ cmpFields' = cmpFields
             /\ (wireLast.op = "value" /\ wireLast.w = wireLast'.w)
                    => cmpFields'[wireLast'.w] = wireLast.a]_vars


\* the listeners the calls cs invoked as fn on the adapter of w, in order
Invoked(cs, fn, w) ==
    [i \in 1..Len(SelectSeq(cs, LAMBDA c : c.fn = fn /\ c.w = w)) |->
        SelectSeq(cs, LAMBDA c : c.fn = fn /\ c.w = w)[i].a]
\* the adapter of w was called as fn in cs
Called(cs, fn, w) == \E i \in 1..Len(cs) : cs[i].fn = fn /\ cs[i].w = w
\* occurrences of e in the sequence q
Count(q, e) == Cardinality({i \in 1..Len(q) : q[i] = e})

CallsOf(cs, fn) == SelectSeq(cs, LAMBDA c : c.fn = fn)

\* C21: a ValueChangedEvent dispatched on the event target of an adapter
\* invokes the data callback of its connector exactly once with the value of
\* the event, and dispatchEvent returns false; on a method wire the wired
\* method is invoked exactly once, with that value as its only argument.
C21_ValueDispatchedOnce ==
    [][wireLast'.op = "value"
          => /\ CallsOf(calls', "dataCallback") = <<Call("dataCallback", wireLast'.w, wireLast'.a, "", EmptyCfg)>>
             /\ wireLast'.err = NoError
             /\ wireLast'.b = "false"
             /\ IF WireMetaMap[WiredClass].def[wireLast'.w].method # Undefined
                THEN CallsOf(calls', "method") = <<Call("method", wireLast'.w, wireLast'.a, "", EmptyCfg)>>
                ELSE CallsOf(calls', "method") = <<>>]_vars

\* the operations of the event target of an adapter
EventTargetOps == {"addEventListener", "removeEventListener", "dispatchEvent"}

\* C22: addEventListener or removeEventListener with a type other than
\* connect, disconnect and config, and dispatchEvent with an event that is
\* neither a value-changed nor a link-context event, fail with the
\* invalid-event-type error; the listener lists and the context mapping of
\* every adapter are as before and no callback is invoked.
C22_InvalidEventTypeRejected ==
    [][(wireLast'.op \in EventTargetOps /\ wireLast'.a \notin {"connect", "disconnect", "config"})
          => /\ wireLast'.err = "Error: Invalid event type"
             /\ adapters' = adapters
             /\ calls' = <<>>
             /\ UNCHANGED <<cmpFields, conn, microtasks, requests, wiredConnecting, wiredDisconnecting>>]_vars

\* C22 witness: removeEventListener of the registered listener l1 with an
\* unknown type failed, and l1 is still in the config list of the adapter.
C22_Witness ==
    /\ wireLast = WireOp("removeEventListener", "x", "other", "l1", "Error: Invalid event type")
    /\ adapters["x"].configuring = <<"l1">>
    /\ calls = <<>>

\* the adapters the calls cs reached as fn, in order
AdaptersCalled(cs, fn) == [i \in 1..Len(CallsOf(cs, fn)) |-> CallsOf(cs, fn)[i].w]
\* the adapter of every wire declaration of the class was constructed
EveryAdapterConstructed ==
    \A i \in 1..Len(WireMetaMap[WiredClass].order) : conn[WireMetaMap[WiredClass].order[i]].connector

Reported(cs, w) == \E i \in 1..Len(cs) : cs[i].fn = "report error" /\ cs[i].w = w

\* C24: installWireAdapters returns normally whatever the adapter
\* constructors and the initial config computations throw, each wire whose
\* constructor threw being reported to the instance; and connectWireAdapters
\* and disconnectWireAdapters on the instance never raise afterwards.
C24_ConstructionErrorsContained ==
    [][/\ wireLast'.op = "installWireAdapters"
            => /\ wireLast'.err = NoError
               /\ \A w \in Names : (conn'[w].created /\ ~conn'[w].connector) => Reported(calls', w)
       /\ wireLast'.op \in {"connectWireAdapters", "disconnectWireAdapters"}
            => wireLast'.err = NoError]_vars

\* the wire w has no dynamic parameter
NoDynamicParams(w) ==
    \A k \in CfgKeys : ~WireMetaMap[WiredClass].def[w].configCallback.paramsConfig[k].present

\* C25: the config extractor of a wire with static config S and no dynamic
\* parameter returns, whatever the host holds and on every call, an object
\* with the keys and values of S; it reads (and observes) no property of the
\* host, the object is not S itself, and S is as before.
C25_StaticConfigCopied ==
    [][(wireLast'.op = "configCallback" /\ NoDynamicParams(wireLast'.w))
          => /\ wireLast'.err = NoError
             /\ Len(calls') = 1
             /\ calls'[1].fn = "configCallback"
             /\ calls'[1].cfg = WireMetaMap[WiredClass].def[wireLast'.w].configCallback.cfgStatic
             /\ calls'[1].a # "cfgStatic"
             /\ configCallback(WireMetaMap[WiredClass].def[wireLast'.w].configCallback).reads = {}
             /\ WireMetaMap' = WireMetaMap]_vars

\* C25 witness: the extractor of a wire with static config {kind: "x"} and
\* no dynamic parameter was applied to a host holding p = o1 and q = v1.
C25_Witness ==
    /\ wireLast.op = "configCallback" /\ wireLast.w = "x" /\ wireLast.err = NoError
    /\ NoDynamicParams("x")
    /\ cmpProps = [p |-> "o1", q |-> "v1"]
    /\ calls = <<Call("configCallback", "x", "{}", "", StaticKindX)>>

RECURSIVE PathValue(_, _)
\* value[t1]...[tn] as the claim states it: undefined once a null or
\* undefined value is met before the end of the path
PathValue(value, tail) ==
    IF tail = <<>> THEN value
    ELSE IF isNullish(value) THEN Undefined
    ELSE PathValue(GetMember(value, Head(tail)), Tail(tail))

RECURSIVE JoinPath(_)
\* the segments joined with dots, as characters
JoinPath(segments) ==
    IF segments = <<>> THEN <<>>
    ELSE IF Len(segments) = 1 THEN <<Head(segments)>>
    ELSE <<Head(segments), ".">> \o JoinPath(Tail(segments))

\* C26: the extractor of a wire with a dynamic parameter of reference
\* h.t1...tn returns without error, and the value under the parameter's key
\* is host[h][t1]...[tn], undefined when a null or undefined value is met
\* mid-path; every parsed reference is held as its head and its ordered tail,
\* and parsing it again gives the same decomposition.
C26_DotPathValue ==
    [][/\ wireLast'.op = "configCallback"
            => \A k \in CfgKeys :
                 LET rp == WireMetaMap[WiredClass].def[wireLast'.w].configCallback.paramsConfig[k]
                 IN rp.present
                      => /\ wireLast'.err = NoError
                         /\ calls'[Len(calls')].cfg[k] = PathValue(cmpProps[rp.head], rp.tail)
       /\ \A r \in Refs :
            refCache[r].present
              => /\ JoinPath(<<refCache[r].head>> \o refCache[r].tail) = r
                 /\ buildReactiveParameter(refCache, r).rp = refCache[r]]_vars

\* in the calls cs, every call fn on the adapter of w comes after a call
\* first on it
ComesAfter(cs, w, first, fn) ==
    \A j \in 1..Len(cs) :
        (cs[j].fn = fn /\ cs[j].w = w)
            => \E i \in 1..(j - 1) : cs[i].fn = first /\ cs[i].w = w

\* C27: installWireAdapters, for every wire whose adapter it constructed,
\* calls update on that adapter exactly once, after the construction, with
\* the config the extractor gives for the component at that moment; no
\* connect() is made before installWireAdapters has returned.
C27_InitialUpdateAtCreation ==
    [][/\ wireLast'.op = "installWireAdapters"
            => \A w \in Names :
                 conn'[w].connector
                    => /\ Len(UpdatesOf(calls', w)) = 1
                       /\ UpdatesOf(calls', w)[1].cfg
                             = configCallback(WireMetaMap[WiredClass].def[w].configCallback).config
                       /\ ComesAfter(calls', w, "new adapter", "update")
                       /\ ~Called(calls', "connect", w)
       /\ \A w \in Names :
            Called(calls', "connect", w) => (wiredConnecting.defined /\ conn[w].connector)]_vars

\* C28: disconnectWireAdapters leaves the scheduled recomputations and the
\* pending flags as they are; a connector has a recomputation in the queue
\* exactly when its flag is set, and at most one; and the micro-task run
\* right after the disconnect, for a connector whose adapter received
\* disconnect(), is taken off the queue, clears the flag of its connector and
\* calls update on its adapter exactly once.
C28_PendingRecomputeSurvivesDisconnect ==
    [][/\ wireLast'.op = "disconnectWireAdapters"
            => /\ microtasks' = microtasks
               /\ \A w \in Names : conn'[w].hasPendingConfig = conn[w].hasPendingConfig
       /\ \A w \in Names : Count(microtasks, w) = (IF conn[w].hasPendingConfig THEN 1 ELSE 0)
       /\ (wireLast'.op = "microtask" /\ wireLast.op = "disconnectWireAdapters"
           /\ Called(calls, "disconnect", wireLast'.w))
            => /\ microtasks # <<>>
               /\ wireLast'.w = Head(microtasks)
               /\ microtasks' = Tail(microtasks)
               /\ ~conn'[wireLast'.w].hasPendingConfig
               /\ wireLast'.err = NoError
               /\ Len(UpdatesOf(calls', wireLast'.w)) = 1]_vars

\* !adapterId
isFalsy(value) == value \in {Undefined, Null}

\* C29: register(adapterId, callback) fails with a TypeError and leaves the
\* `adapter` of every adapter id as it was when adapterId is falsy, when
\* callback is not callable, or when adapterId has an adapter already; a
\* second register on an adapter id never replaces its adapter class.
C29_RegisterRejects ==
    [][wireLast'.op = "register"
          => ((\/ isFalsy(wireLast'.a)
               \/ ~isCallable(wireLast'.b)
               \/ (wireLast'.a \in AdapterIds /\ adapterOf[wireLast'.a] # Absent))
                 => /\ wireLast'.err = "TypeError"
                    /\ adapterOf' = adapterOf)]_vars

\* the property names meta declares a descriptor for
DeclaredNames(meta) ==
    {meta.publicProps[i].name : i \in 1..Len(meta.publicProps)}
    \cup {meta.wire[i].name : i \in {j \in 1..Len(meta.wire) : meta.wire[j].method # 1}}
    \cup Range(meta.track) \cup Range(meta.fields)

\* C30: a registerDecorators call that completes leaves, under every name
\* listed in meta.fields, the observed-field descriptor of that name on the
\* prototype (in development the name had no own descriptor before), and
\* changes the descriptor of no name the metadata does not declare.
C30_FieldsInstalledUnderTheirNames ==
    [][(RegistrationStep /\ regLast'.err = NoError)
          => LET c == regLast'.Ctor
                 meta == regLast'.meta
             IN /\ \A i \in 1..Len(meta.fields) :
                      /\ proto'[c][meta.fields[i]] = createObservedFieldPropertyDescriptor(meta.fields[i])
                      /\ devMode => isUndefinedDesc(proto[c][meta.fields[i]])
                /\ \A n \in AllNames \ DeclaredNames(meta) : proto'[c][n] = proto[c][n]]_vars

====
